---- MODULE Spec2Model ----
(***************************************************************************)
(* A model of include/jwt/jwt.hpp: the JWT header (jwt_header) and the JWT *)
(* payload (jwt_payload) with its case-insensitive claim-name index.       *)
(*                                                                         *)
(* A std::string is a sequence of character codes (ASCII).  Claim names    *)
(* are C strings: they hold no NUL character, which is what strcasecmp and *)
(* the const char* key of payload_[cname.data()] both assume.              *)
(*                                                                         *)
(* A json_t is a record [type, object]: type is "null" or "object" and     *)
(* object is the mapping from keys to values of a JSON object.             *)
(***************************************************************************)
EXTENDS Integers, Sequences, FiniteSets, TLC

VARIABLES
  payload_,      \* jwt_payload::payload_, the JSON object holding the claims
  claim_names_,  \* jwt_payload::claim_names_, std::set<std::string, case_compare>
  alg_,          \* jwt_header::alg_
  typ_,          \* jwt_header::typ_
  alive,         \* FALSE once the process was aborted (failed assert / crash)
  call,          \* the last member function called, with its arguments
  ret,           \* what that call returned (a header setter returns nothing
                 \* and leaves the previously saved value in place)
  adds,          \* number of add_claim calls made so far
  called,        \* history: every name add_claim was called with
  first,         \* history: first spelling of each name -> value of that call
  clean,         \* history: first spellings followed by overwrite=false calls only
  set_alg,       \* history: the algorithm most recently given to the header
  set_typ        \* history: the type most recently given to the header

vars == <<payload_, claim_names_, alg_, typ_, alive, call, ret, adds,
          called, first, clean, set_alg, set_typ>>

payloadVars == <<payload_, claim_names_, adds, called, first, clean>>
headerVars  == <<alg_, typ_, set_alg, set_typ>>

(***************************************************************************)
(* Bounds and inputs.                                                      *)
(***************************************************************************)
MaxAdds == 3

\* the claim names given to the payload: "sub", "SUB", "su", "iss", "ISS"
ClaimNames == { <<115, 117, 98>>, <<83, 85, 66>>, <<115, 117>>,
                <<105, 115, 115>>, <<73, 83, 83>> }

\* the JSON values given to the claims
ClaimValues == {1, 2}

(***************************************************************************)
(* enum class algorithm, enum class type.                                  *)
(***************************************************************************)
NONE  == 0
HS256 == 1
HS384 == 2
HS512 == 3
RS256 == 4
RS384 == 5
RS512 == 6
ES256 == 7
ES384 == 8
ES512 == 9
TERM  == 10

algorithm == {NONE, HS256, HS384, HS512, RS256, RS384, RS512,
              ES256, ES384, ES512, TERM}

JWT == 0

type == {JWT}

alg_to_str(alg) ==
  CASE alg = HS256 -> "HS256"
    [] alg = HS384 -> "HS384"
    [] alg = HS512 -> "HS512"
    [] alg = RS256 -> "RS256"
    [] alg = RS384 -> "RS384"
    [] alg = RS512 -> "RS512"
    [] alg = ES256 -> "ES256"
    [] alg = ES384 -> "ES384"
    [] alg = ES512 -> "ES512"
    [] alg = TERM  -> "TERM"
    [] alg = NONE  -> "NONE"

type_to_str(typ) ==
  CASE typ = JWT -> "JWT"

(***************************************************************************)
(* JSON values (nlohmann::json as jwt.hpp uses it).                        *)
(***************************************************************************)
EmptyObject == [k \in {} |-> 0]

\* json_t j;  (default constructed: null)
json_null == [type |-> "null", object |-> EmptyObject]

\* json_t::object()
json_object == [type |-> "object", object |-> EmptyObject]

\* A variant that inserts like std::map::insert: a key that is present
\* keeps its value.
json_assign_insert_only(j, key, value) ==
  [type |-> "object",
   object |-> [k \in (DOMAIN j.object) \cup {key} |->
                 IF k \in DOMAIN j.object THEN j.object[k] ELSE value]]

\* j[key] = value: a null becomes an object; the key is inserted when it
\* is missing and its value replaced when it is present.
json_assign(j, key, value) ==
  [type |-> "object",
   object |-> [k \in (DOMAIN j.object) \cup {key} |->
                 IF k = key THEN value ELSE j.object[k]]]

(***************************************************************************)
(* jwt_payload::case_compare and the std::set ordered by it.               *)
(***************************************************************************)
tolower(c) == IF c \in 65..90 THEN c + 32 ELSE c

\* strcasecmp on the two C strings: the difference of the first pair of
\* lowered characters that differ, the end of a string counting as NUL.
RECURSIVE strcasecmp(_, _)
strcasecmp(lhs, rhs) ==
  LET a == IF lhs = <<>> THEN 0 ELSE tolower(Head(lhs))
      b == IF rhs = <<>> THEN 0 ELSE tolower(Head(rhs))
  IN  IF a # b \/ a = 0 THEN a - b
      ELSE strcasecmp(Tail(lhs), Tail(rhs))

\* A variant that orders by strcmp, case-sensitively.
RECURSIVE strcmp(_, _)
strcmp(lhs, rhs) ==
  LET a == IF lhs = <<>> THEN 0 ELSE Head(lhs)
      b == IF rhs = <<>> THEN 0 ELSE Head(rhs)
  IN  IF a # b \/ a = 0 THEN a - b
      ELSE strcmp(Tail(lhs), Tail(rhs))

case_compare_strcmp(lhs, rhs) == strcmp(lhs, rhs) < 0

case_compare(lhs, rhs) == strcasecmp(lhs, rhs) < 0

\* std::set::find: the elements equivalent to key under the ordering
\* (neither is less than the other); {} stands for end().
set_find(s, key) ==
  {e \in s : ~case_compare(e, key) /\ ~case_compare(key, e)}

\* A variant that counts the exact spelling only.
set_count_exact(s, key) == IF key \in s THEN 1 ELSE 0

\* std::set::count
set_count(s, key) == Cardinality(set_find(s, key))

\* A variant that replaces the equivalent element by the new spelling.
set_emplace_replace(s, key) == (s \ set_find(s, key)) \cup {key}

\* std::set::emplace: nothing is inserted when an equivalent element is there
set_emplace(s, key) == IF set_find(s, key) = {} THEN s \cup {key} ELSE s

(***************************************************************************)
(* The words of the claims: equality of two names ignoring letter case,    *)
(* and the history variables' update on an add_claim call.                 *)
(***************************************************************************)
SameLetter(c, d) ==
  \/ c = d
  \/ c \in 65..90 /\ d = c + 32
  \/ d \in 65..90 /\ c = d + 32

EqIgnoreCase(a, b) ==
  /\ Len(a) = Len(b)
  /\ \A i \in 1..Len(a) : SameLetter(a[i], b[i])

CalledBefore(name) == \E m \in called : EqIgnoreCase(m, name)

History(cname, cvalue, overwrite) ==
  /\ adds' = adds + 1
  /\ called' = called \cup {cname}
  /\ first' = IF CalledBefore(cname) THEN first
              ELSE [n \in (DOMAIN first) \cup {cname} |->
                      IF n = cname THEN cvalue ELSE first[n]]
  /\ clean' = (IF overwrite THEN {} ELSE clean)
                \cup (IF CalledBefore(cname) THEN {} ELSE {cname})

Bool(b) == [kind |-> "bool", b |-> b]

(***************************************************************************)
(* jwt_payload.                                                            *)
(***************************************************************************)
\* A variant that reads the overwrite flag the wrong way round.
add_claim_inverted(cname, cvalue, overwrite) ==
  /\ alive
  /\ adds < MaxAdds
  /\ call' = [op |-> "add_claim", name |-> cname, value |-> cvalue,
              overwrite |-> overwrite]
  /\ LET itr == set_find(claim_names_, cname)
     IN  IF itr # {} /\ overwrite
         THEN /\ ret' = Bool(FALSE)
              /\ UNCHANGED <<payload_, claim_names_>>
         ELSE /\ claim_names_' = set_emplace(claim_names_, cname)
              /\ payload_' = json_assign(payload_, cname, cvalue)
              /\ ret' = Bool(TRUE)
  /\ History(cname, cvalue, overwrite)
  /\ UNCHANGED <<alive, headerVars>>

add_claim(cname, cvalue, overwrite) ==
  /\ alive
  /\ adds < MaxAdds
  /\ call' = [op |-> "add_claim", name |-> cname, value |-> cvalue,
              overwrite |-> overwrite]
  /\ LET itr == set_find(claim_names_, cname)
     IN  IF itr # {} /\ ~overwrite
         THEN /\ ret' = Bool(FALSE)
              /\ UNCHANGED <<payload_, claim_names_>>
         ELSE /\ claim_names_' = set_emplace(claim_names_, cname)
              /\ payload_' = json_assign(payload_, cname, cvalue)
              /\ ret' = Bool(TRUE)
  /\ History(cname, cvalue, overwrite)
  /\ UNCHANGED <<alive, headerVars>>

has_claim(cname) ==
  /\ alive
  /\ call' = [op |-> "has_claim", name |-> cname]
  /\ ret' = Bool(set_count(claim_names_, cname) # 0)
  /\ UNCHANGED <<alive, payloadVars, headerVars>>

\* A variant that reads payload_ through the non-const operator[], which
\* inserts a null (written 0) under a key that is missing.
has_claim_with_value_nonconst(cname, cvalue) ==
  /\ alive
  /\ call' = [op |-> "has_claim_with_value", name |-> cname, value |-> cvalue]
  /\ LET itr == set_find(claim_names_, cname)
     IN  IF itr = {}
         THEN ret' = Bool(FALSE) /\ payload_' = payload_
         ELSE IF cname \in DOMAIN payload_.object
         THEN ret' = Bool(cvalue = payload_.object[cname]) /\ payload_' = payload_
         ELSE ret' = Bool(FALSE) /\ payload_' = json_assign(payload_, cname, 0)
  /\ UNCHANGED <<alive, claim_names_, adds, called, first, clean, headerVars>>

\* payload_[cname] in a const member function is json's const operator[]:
\* it never inserts, and a key that is missing is an assertion failure
\* (the process aborts) or, with NDEBUG, a read through end(): the call
\* may crash or compare cvalue with whatever lies there.
has_claim_with_value(cname, cvalue) ==
  /\ alive
  /\ call' = [op |-> "has_claim_with_value", name |-> cname, value |-> cvalue]
  /\ LET itr == set_find(claim_names_, cname)
     IN  IF itr = {}
         THEN ret' = Bool(FALSE) /\ alive' = alive
         ELSE IF cname \in DOMAIN payload_.object
         THEN ret' = Bool(cvalue = payload_.object[cname]) /\ alive' = alive
         ELSE \/ ret' = [kind |-> "none"] /\ alive' = FALSE
              \/ \E b \in BOOLEAN : ret' = Bool(b) /\ alive' = alive
  /\ UNCHANGED <<payloadVars, headerVars>>

jwt_payload_create_json_obj ==
  /\ alive
  /\ call' = [op |-> "jwt_payload::create_json_obj"]
  /\ ret' = [kind |-> "json", json |-> payload_]
  /\ UNCHANGED <<alive, payloadVars, headerVars>>

(***************************************************************************)
(* jwt_header.                                                             *)
(***************************************************************************)
\* A variant whose assignment does not reach the member.
algo_unassigned(alg) ==
  /\ call' = [op |-> "algo", alg |-> alg]
  /\ alg_' = alg_
  /\ set_alg' = alg
  /\ UNCHANGED <<typ_, set_typ, ret, alive, payloadVars>>

algo(alg) ==
  /\ call' = [op |-> "algo", alg |-> alg]
  /\ alg_' = alg
  /\ set_alg' = alg
  /\ UNCHANGED <<typ_, set_typ, ret, alive, payloadVars>>

typ(t) ==
  /\ call' = [op |-> "typ", typ |-> t]
  /\ typ_' = t
  /\ set_typ' = t
  /\ UNCHANGED <<alg_, set_alg, ret, alive, payloadVars>>

jwt_header_create_json_obj ==
  /\ call' = [op |-> "jwt_header::create_json_obj"]
  /\ ret' = [kind |-> "json",
             json |-> json_assign(json_assign(json_object,
                                              "typ", type_to_str(typ_)),
                                  "alg", alg_to_str(alg_))]
  /\ UNCHANGED <<headerVars, alive, payloadVars>>

(***************************************************************************)
(* The two specifications: a payload built by add_claim calls and queried, *)
(* and a header built by any constructor, set and serialized.              *)
(***************************************************************************)
\* jwt_payload() = default, beside a default jwt_header
Init ==
  /\ payload_ = json_null
  /\ claim_names_ = {}
  /\ alg_ = NONE
  /\ typ_ = JWT
  /\ alive = TRUE
  /\ call = [op |-> "jwt_payload"]
  /\ ret = [kind |-> "none"]
  /\ adds = 0
  /\ called = {}
  /\ first = EmptyObject
  /\ clean = {}
  /\ set_alg = NONE
  /\ set_typ = JWT

Next ==
  \/ \E cname \in ClaimNames, cvalue \in ClaimValues, overwrite \in BOOLEAN :
       add_claim(cname, cvalue, overwrite)
  \/ \E cname \in ClaimNames : has_claim(cname)
  \/ \E cname \in ClaimNames, cvalue \in ClaimValues :
       has_claim_with_value(cname, cvalue)
  \/ jwt_payload_create_json_obj

Spec == Init /\ [][Next]_vars

\* jwt_header() = default, or jwt_header(alg, typ = type::JWT)
jwt_header(alg, t) ==
  /\ alg_ = alg
  /\ typ_ = t
  /\ set_alg = alg
  /\ set_typ = t
  /\ call = [op |-> "jwt_header", alg |-> alg, typ |-> t]

HeaderInit ==
  /\ payload_ = json_null
  /\ claim_names_ = {}
  /\ alive = TRUE
  /\ ret = [kind |-> "none"]
  /\ adds = 0
  /\ called = {}
  /\ first = EmptyObject
  /\ clean = {}
  /\ \E alg \in algorithm, t \in type : jwt_header(alg, t)

HeaderNext ==
  \/ \E alg \in algorithm : algo(alg)
  \/ \E t \in type : typ(t)
  \/ jwt_header_create_json_obj

HeaderSpec == HeaderInit /\ [][HeaderNext]_vars

(***************************************************************************)
(* The properties.  A step is recognised by the call it records: call' is  *)
(* the member function the step ran, with its arguments, and ret' is what  *)
(* it returned; the unprimed variables are the state before the call.      *)
(***************************************************************************)
Keys(j) == DOMAIN j.object

Matches(j, name) == {k \in Keys(j) : EqIgnoreCase(k, name)}

\* C1: add_claim(name, value, overwrite=false) with a name equal, ignoring
\* letter case, to a name already added returns false and leaves the
\* payload mapping and the claim-name index as they were.
C1_DuplicateRejected ==
  [][ (/\ call'.op = "add_claim"
       /\ ~call'.overwrite
       /\ CalledBefore(call'.name))
      => (/\ ret' = Bool(FALSE)
          /\ payload_' = payload_
          /\ claim_names_' = claim_names_) ]_vars

\* a rejected call whose name differs in case from the stored key
C1_Witness ==
  /\ call.op = "add_claim"
  /\ ~call.overwrite
  /\ ret = Bool(FALSE)
  /\ call.name \notin Keys(payload_)
  /\ Matches(payload_, call.name) # {}

\* C2: first writer wins without overwrite.  While every add_claim call
\* after the first call for a name n used overwrite=false (n \in clean), a
\* further overwrite=false call with the same name ignoring case returns
\* false, and has_claim_with_value(n, v1) returns true for the value v1 of
\* the first call.
C2_FirstWriterWins ==
  [][ /\ (/\ call'.op = "add_claim"
          /\ ~call'.overwrite
          /\ \E n \in clean : EqIgnoreCase(n, call'.name))
         => ret' = Bool(FALSE)
      /\ (/\ call'.op = "has_claim_with_value"
          /\ call'.name \in clean
          /\ call'.value = first[call'.name])
         => ret' = Bool(TRUE) ]_vars

\* has_claim_with_value(n, v1) is true after a call with another casing of
\* n and another value was rejected
C2_Witness ==
  /\ call.op = "has_claim_with_value"
  /\ call.name \in clean
  /\ call.value = first[call.name]
  /\ ret = Bool(TRUE)
  /\ \E m \in called : m # call.name /\ EqIgnoreCase(m, call.name)

\* C3: the payload mapping never holds two distinct keys that are equal
\* ignoring case.
C3_NoCaseDuplicates ==
  \A k1, k2 \in Keys(payload_) : EqIgnoreCase(k1, k2) => k1 = k2

\* C4: has_claim_with_value(name, value) returns true exactly when a stored
\* key equal to name ignoring case holds value, whatever casing the caller
\* queries with, and false when no stored key matches.
C4_ValueUnderStoredKey ==
  call.op = "has_claim_with_value"
    => ret = Bool(\E k \in Matches(payload_, call.name) :
                     payload_.object[k] = call.value)

\* what has_claim(n) answers in the current state, a function of the index
HasClaimNow(n) == set_count(claim_names_, n) # 0

\* C5: has_claim(n) is true exactly when an earlier add_claim call was made
\* with a name equal to n ignoring case, and once true it stays true.
C5_HasClaim ==
  [][ /\ call'.op = "has_claim"
         => ret' = Bool(CalledBefore(call'.name))
      /\ claim_names_' # claim_names_
         => \A n \in ClaimNames :
              HasClaimNow(n) => set_count(claim_names_', n) # 0 ]_vars

\* has_claim is true for a spelling add_claim was never called with
C5_Witness ==
  /\ call.op = "has_claim"
  /\ ret = Bool(TRUE)
  /\ call.name \notin called

C7_HeaderJson ==
  [][ /\ call'.op = "jwt_header::create_json_obj"
         => (/\ ret'.kind = "json"
             /\ ret'.json.type = "object"
             /\ Keys(ret'.json) = {"typ", "alg"}
             /\ ret'.json.object["typ"] = type_to_str(set_typ)
             /\ ret'.json.object["alg"] = alg_to_str(set_alg))
      /\ call'.op = "algo" => typ_' = typ_
      /\ call'.op = "typ" => alg_' = alg_ ]_vars

\* a header serialized while it holds RS256
C7_Witness ==
  /\ call.op = "jwt_header::create_json_obj"
  /\ ret.kind = "json"
  /\ ret.json.object["alg"] = "RS256"
  /\ ret.json.object["typ"] = "JWT"

RegisteredNames == {"HS256", "HS384", "HS512", "RS256", "RS384", "RS512",
                    "ES256", "ES384", "ES512", "NONE"}

\* C8: the "alg" string a header serializes, whatever algorithm value it
\* was constructed with or set to, is one of the ten registered names, and
\* distinct algorithm values have distinct names.
C8_ClosedAlgorithmSet ==
  /\ call.op = "jwt_header::create_json_obj"
       => ret.json.object["alg"] \in RegisteredNames
  /\ \A a, b \in algorithm : a # b => alg_to_str(a) # alg_to_str(b)

\* C9: every name of the index is a key of the mapping with that spelling,
\* every key of the mapping equals an index name ignoring case, and the
\* index holds, for each name, the spelling of the first call that added it.
C9_IndexAgreement ==
  /\ \A n \in claim_names_ : n \in Keys(payload_)
  /\ \A k \in Keys(payload_) : \E n \in claim_names_ : EqIgnoreCase(k, n)
  /\ claim_names_ = DOMAIN first

\* a later overwrite=true call with another spelling left the index entry
C9_Witness ==
  /\ call.op = "add_claim"
  /\ call.overwrite
  /\ call.name \in Keys(payload_)
  /\ call.name \notin claim_names_

\* C10: has_claim, has_claim_with_value and create_json_obj leave the
\* payload mapping and the claim-name index unchanged.
C10_QueriesReadOnly ==
  [][ call'.op \in {"has_claim", "has_claim_with_value",
                    "jwt_payload::create_json_obj"}
      => (payload_' = payload_ /\ claim_names_' = claim_names_) ]_vars

\* has_claim_with_value was called with a name that matches a stored key
\* only ignoring case, and returned
C10_Witness ==
  /\ call.op = "has_claim_with_value"
  /\ alive
  /\ call.name \notin Keys(payload_)
  /\ Matches(payload_, call.name) # {}

====
